---- MODULE Spec2Model ----
(***************************************************************************)
(* Model of new_impl/database.rs of the cpp_to_rust generator: the         *)
(* Database of C++ items (add_cpp_data), the per-wrapper checker ledger    *)
(* (CppCheckerInfoList::add) and the HTML report (print_as_html).          *)
(***************************************************************************)
EXTENDS Integers, Sequences, FiniteSets, TLC

VARIABLES
  crate_name,    \* Database.crate_name
  items,         \* Database.items: sequence of DatabaseItem
  environments,  \* Database.environments: sequence of CppCheckerEnv
  last,          \* the most recent call: its name, arguments and return value
  log            \* the add_cpp_data calls so far, where they are recorded

vars == <<crate_name, items, environments, last, log>>

(***************************************************************************)
(* Bounds of the model.                                                    *)
(***************************************************************************)
\* metadata values 0..MaxMeta a fact may carry besides its identifying fields
MaxMeta == 1
\* checker outcomes (CppCheckerInfo) held by all the ledgers of one Database
MaxChecks == 2
\* add_cpp_data calls of a recorded run
MaxCalls == 3

(***************************************************************************)
(* Option<T>: None is the empty sequence, Some(x) the one-element one.     *)
(***************************************************************************)
None == << >>
Some(x) == <<x>>

(***************************************************************************)
(* DatabaseItemSource                                                      *)
(***************************************************************************)
CppParser(inc, loc) ==
  [tag |-> "CppParser", include_file |-> inc, origin_location |-> loc]
Destructor == [tag |-> "Destructor"]
TemplateInstantiation == [tag |-> "TemplateInstantiation"]
SignalArguments == [tag |-> "SignalArguments"]

is_parser(source) ==
  CASE source.tag = "CppParser" -> TRUE
    [] OTHER -> FALSE

OriginLocation(l, c) ==
  [include_file_path |-> "/usr/include/a.h", line |-> l, column |-> c]

ParserSources ==
  { CppParser(None, None),
    CppParser(Some("a.h"), Some(OriginLocation(10, 1))) }
SynthSources == {Destructor, TemplateInstantiation, SignalArguments}
Sources == ParserSources \cup SynthSources

(***************************************************************************)
(* CppItemData.  Each variant carries its identifying fields and a `meta`  *)
(* field standing for the incidental data its is_same ignores.             *)
(***************************************************************************)
TypeFact(name, kind, m) ==
  [variant |-> "Type", name |-> name, kind |-> kind, meta |-> m]
EnumValueFact(enum_name, name, value, m) ==
  [variant |-> "EnumValue", enum_name |-> enum_name, name |-> name,
   value |-> value, meta |-> m]
MethodFact(sig, m) ==
  [variant |-> "Method", signature |-> sig, meta |-> m]
ClassFieldFact(class, name, m) ==
  [variant |-> "ClassField", class_type |-> class, name |-> name, meta |-> m]
ClassBaseFact(derived, base, vis, virt, idx, m) ==
  [variant |-> "ClassBase", derived_class_type |-> derived,
   base_class_type |-> base, visibility |-> vis, is_virtual |-> virt,
   base_index |-> idx, meta |-> m]

\* v.is_same(v2) of one variant: every field but the incidental metadata
VariantIsSame(v, v2) ==
  [v EXCEPT !.meta = 0] = [v2 EXCEPT !.meta = 0]

is_same(self, other) ==
  CASE self.variant = "Type" /\ other.variant = "Type" -> VariantIsSame(self, other)
    [] self.variant = "EnumValue" /\ other.variant = "EnumValue" -> VariantIsSame(self, other)
    [] self.variant = "Method" /\ other.variant = "Method" -> VariantIsSame(self, other)
    [] self.variant = "ClassField" /\ other.variant = "ClassField" -> VariantIsSame(self, other)
    [] self.variant = "ClassBase" /\ other.variant = "ClassBase" -> VariantIsSame(self, other)
    [] OTHER -> FALSE

Metas == 0..MaxMeta
KindEnum == [tag |-> "Enum"]
KindClass(type_base) == [tag |-> "Class", type_base |-> type_base]
\* a class type, reduced to what to_cpp_pseudo_code prints of it
ClassType(name) == [name |-> name]

Facts ==
  { EnumValueFact("A", "X", 1, m) : m \in Metas } \cup
  { EnumValueFact("A", "Y", 2, 0),
    TypeFact("QPoint", KindClass(ClassType("QPoint")), 0) }
\* the ingestion inputs of the recorded runs: one declaration brought with
\* two metadata values, and another declaration
OrderSources ==
  ParserSources \cup {Destructor, TemplateInstantiation}
OrderFacts ==
  { EnumValueFact("A", "X", 1, 0), EnumValueFact("A", "X", 1, 1),
    TypeFact("QPoint", KindClass(ClassType("QPoint")), 0) }

\* the ingestion inputs of the full specification, where wrappers and
\* ledgers vary too
FewInputs ==
  { <<Destructor, EnumValueFact("A", "X", 1, 0)>>,
    <<CppParser(Some("a.h"), Some(OriginLocation(10, 1))),
      EnumValueFact("A", "X", 1, 1)>>,
    <<Destructor, TypeFact("QPoint", KindClass(ClassType("QPoint")), 0)>> }

(***************************************************************************)
(* Database::empty                                                         *)
(***************************************************************************)
CrateName == "qt_core"

empty(name) ==
  [crate_name |-> name, items |-> << >>, environments |-> << >>]

(***************************************************************************)
(* Database::add_cpp_data                                                  *)
(***************************************************************************)
\* Iterator::find: the position of the first TRUE of flags, 0 when there is none
FindFirst(flags) ==
  IF \E i \in 1..Len(flags) : flags[i]
    THEN CHOOSE i \in 1..Len(flags) :
           flags[i] /\ \A j \in 1..(i - 1) : ~flags[j]
    ELSE 0

DatabaseItem(data, source) ==
  [cpp_data |-> data, source |-> source, cpp_ffi_methods |-> << >>]

\* add_cpp_data looking entries up by == instead of is_same
add_cpp_data_eq(its, source, data) ==
  LET i == FindFirst([k \in 1..Len(its) |-> its[k].cpp_data = data])
  IN IF i # 0
       THEN [items |-> IF is_parser(source) /\ ~is_parser(its[i].source)
                         THEN [its EXCEPT ![i].source = source]
                         ELSE its,
             ret |-> FALSE]
       ELSE [items |-> Append(its, DatabaseItem(data, source)),
             ret |-> TRUE]

\* add_cpp_data without the `return false` of the branch that found an entry
add_cpp_data_fallthrough(its, source, data) ==
  LET i == FindFirst([k \in 1..Len(its) |-> is_same(its[k].cpp_data, data)])
      upd == IF i # 0 /\ is_parser(source) /\ ~is_parser(its[i].source)
               THEN [its EXCEPT ![i].source = source]
               ELSE its
  IN [items |-> Append(upd, DatabaseItem(data, source)), ret |-> TRUE]

\* add_cpp_data taking the source of every call that finds an entry
add_cpp_data_overwrite(its, source, data) ==
  LET i == FindFirst([k \in 1..Len(its) |-> is_same(its[k].cpp_data, data)])
  IN IF i # 0
       THEN [items |-> [its EXCEPT ![i].source = source], ret |-> FALSE]
       ELSE [items |-> Append(its, DatabaseItem(data, source)),
             ret |-> TRUE]

\* add_cpp_data never touching the entry it finds
add_cpp_data_no_upgrade(its, source, data) ==
  LET i == FindFirst([k \in 1..Len(its) |-> is_same(its[k].cpp_data, data)])
  IN IF i # 0
       THEN [items |-> its, ret |-> FALSE]
       ELSE [items |-> Append(its, DatabaseItem(data, source)),
             ret |-> TRUE]

\* add_cpp_data putting a new entry first
add_cpp_data_front(its, source, data) ==
  LET i == FindFirst([k \in 1..Len(its) |-> is_same(its[k].cpp_data, data)])
  IN IF i # 0
       THEN [items |-> IF is_parser(source) /\ ~is_parser(its[i].source)
                         THEN [its EXCEPT ![i].source = source]
                         ELSE its,
             ret |-> FALSE]
       ELSE [items |-> <<DatabaseItem(data, source)>> \o its,
             ret |-> TRUE]

\* add_cpp_data replacing the whole entry when it upgrades the provenance
add_cpp_data_replace_item(its, source, data) ==
  LET i == FindFirst([k \in 1..Len(its) |-> is_same(its[k].cpp_data, data)])
  IN IF i # 0
       THEN [items |-> IF is_parser(source) /\ ~is_parser(its[i].source)
                         THEN [its EXCEPT ![i] = DatabaseItem(data, source)]
                         ELSE its,
             ret |-> FALSE]
       ELSE [items |-> Append(its, DatabaseItem(data, source)),
             ret |-> TRUE]

\* add_cpp_data moving the entry whose provenance it upgrades to the end
add_cpp_data_move_upgraded(its, source, data) ==
  LET i == FindFirst([k \in 1..Len(its) |-> is_same(its[k].cpp_data, data)])
  IN IF i # 0
       THEN [items |-> IF is_parser(source) /\ ~is_parser(its[i].source)
                         THEN SubSeq(its, 1, i - 1)
                                \o SubSeq(its, i + 1, Len(its))
                                \o <<[its[i] EXCEPT !.source = source]>>
                         ELSE its,
             ret |-> FALSE]
       ELSE [items |-> Append(its, DatabaseItem(data, source)),
             ret |-> TRUE]

\* add_cpp_data taking the source of every parser call that finds an entry
add_cpp_data_parser_overwrites(its, source, data) ==
  LET i == FindFirst([k \in 1..Len(its) |-> is_same(its[k].cpp_data, data)])
  IN IF i # 0
       THEN [items |-> IF is_parser(source)
                         THEN [its EXCEPT ![i].source = source]
                         ELSE its,
             ret |-> FALSE]
       ELSE [items |-> Append(its, DatabaseItem(data, source)),
             ret |-> TRUE]

\* add_cpp_data letting a synthesized origin replace a synthesized one
add_cpp_data_synth_overwrites(its, source, data) ==
  LET i == FindFirst([k \in 1..Len(its) |-> is_same(its[k].cpp_data, data)])
  IN IF i # 0
       THEN [items |-> IF ~is_parser(its[i].source)
                         THEN [its EXCEPT ![i].source = source]
                         ELSE its,
             ret |-> FALSE]
       ELSE [items |-> Append(its, DatabaseItem(data, source)),
             ret |-> TRUE]

\* add_cpp_data taking a synthesized origin over a parser one
add_cpp_data_downgrade(its, source, data) ==
  LET i == FindFirst([k \in 1..Len(its) |-> is_same(its[k].cpp_data, data)])
  IN IF i # 0
       THEN [items |-> IF is_parser(source) # is_parser(its[i].source)
                         THEN [its EXCEPT ![i].source = source]
                         ELSE its,
             ret |-> FALSE]
       ELSE [items |-> Append(its, DatabaseItem(data, source)),
             ret |-> TRUE]

\* add_cpp_data putting a new entry in the place of the last one
add_cpp_data_replace_last(its, source, data) ==
  LET i == FindFirst([k \in 1..Len(its) |-> is_same(its[k].cpp_data, data)])
  IN IF i # 0
       THEN [items |-> IF is_parser(source) /\ ~is_parser(its[i].source)
                         THEN [its EXCEPT ![i].source = source]
                         ELSE its,
             ret |-> FALSE]
       ELSE [items |-> IF its = << >>
                         THEN <<DatabaseItem(data, source)>>
                         ELSE [its EXCEPT ![Len(its)] = DatabaseItem(data, source)],
             ret |-> TRUE]

\* add_cpp_data emptying the ledgers of the entry it finds
add_cpp_data_reset_checks(its, source, data) ==
  LET i == FindFirst([k \in 1..Len(its) |-> is_same(its[k].cpp_data, data)])
      upd == IF i # 0 /\ is_parser(source) /\ ~is_parser(its[i].source)
               THEN [its EXCEPT ![i].source = source]
               ELSE its
  IN IF i # 0
       THEN [items |-> [upd EXCEPT ![i].cpp_ffi_methods =
                          [j \in 1..Len(@) |->
                             [@[j] EXCEPT !.checks.items = << >>]]],
             ret |-> FALSE]
       ELSE [items |-> Append(its, DatabaseItem(data, source)),
             ret |-> TRUE]

\* the items after the call and the value the call returns
add_cpp_data(its, source, data) ==
  LET i == FindFirst([k \in 1..Len(its) |-> is_same(its[k].cpp_data, data)])
  IN IF i # 0
       THEN [items |-> IF is_parser(source) /\ ~is_parser(its[i].source)
                         THEN [its EXCEPT ![i].source = source]
                         ELSE its,
             ret |-> FALSE]
       ELSE [items |-> Append(its, DatabaseItem(data, source)),
             ret |-> TRUE]

Call(source, data, ret) ==
  [op |-> "add_cpp_data", source |-> source, data |-> data, ret |-> ret]

AddCppData(source, data) ==
  LET r == add_cpp_data(items, source, data)
  IN /\ items' = r.items
     /\ last' = Call(source, data, r.ret)
     /\ UNCHANGED <<crate_name, environments, log>>

\* the same call in a run that records its calls
RecordedAddCppData(source, data) ==
  LET r == add_cpp_data(items, source, data)
  IN /\ Len(log) < MaxCalls
     /\ items' = r.items
     /\ last' = Call(source, data, r.ret)
     /\ log' = Append(log, Call(source, data, r.ret))
     /\ UNCHANGED <<crate_name, environments>>

(***************************************************************************)
(* CppCheckerEnv, CppCheckerInfo, CppCheckerInfoList                       *)
(***************************************************************************)
Target(arch, os, family, env) ==
  [arch |-> arch, os |-> os, family |-> family, env |-> env]
CppCheckerEnv(target, version) ==
  [target |-> target, cpp_library_version |-> version]
CppCheckerInfo(env, error) == [env |-> env, error |-> error]

Envs ==
  { CppCheckerEnv(Target("X86_64", "Linux", "Unix", "Gnu"), None),
    CppCheckerEnv(Target("X86_64", "Linux", "Unix", "Gnu"), Some("5.11")),
    CppCheckerEnv(Target("X86_64", "Windows", "Windows", "Msvc"), None) }
ErrorTexts == {"link error", "compile error"}
Errors == {None} \cup {Some(e) : e \in ErrorTexts}
\* the checker inputs of the full specification
FewEnvs ==
  { CppCheckerEnv(Target("X86_64", "Linux", "Unix", "Gnu"), None),
    CppCheckerEnv(Target("X86_64", "Linux", "Unix", "Gnu"), Some("5.11")) }
FewErrors == {None, Some("link error")}

Added == [tag |-> "Added"]
Changed(old) == [tag |-> "Changed", old |-> old]
Unchanged == [tag |-> "Unchanged"]

\* add without the early return of the branch that found the environment
add_always_push(self, env, error) ==
  LET k == FindFirst([n \in 1..Len(self.items) |-> self.items[n].env = env])
      upd == IF k # 0 THEN [self EXCEPT !.items[k].error = error] ELSE self
  IN [list |-> [upd EXCEPT !.items = Append(@, CppCheckerInfo(env, error))],
      ret |-> Added]

\* add reporting the new error, not the stored one, as Changed.old
add_old_is_new(self, env, error) ==
  LET k == FindFirst([n \in 1..Len(self.items) |-> self.items[n].env = env])
  IN IF k # 0
       THEN [list |-> [self EXCEPT !.items[k].error = error],
             ret |-> IF self.items[k].error = error
                       THEN Unchanged
                       ELSE Changed(error)]
       ELSE [list |-> [self EXCEPT
                         !.items = Append(@, CppCheckerInfo(env, error))],
             ret |-> Added]

\* add removing the outcome of an environment that now validates
add_drop_ok(self, env, error) ==
  LET k == FindFirst([n \in 1..Len(self.items) |-> self.items[n].env = env])
  IN IF k # 0
       THEN [list |-> IF error = None
                        THEN [self EXCEPT
                                !.items = SubSeq(@, 1, k - 1)
                                            \o SubSeq(@, k + 1, Len(@))]
                        ELSE [self EXCEPT !.items[k].error = error],
             ret |-> IF self.items[k].error = error
                       THEN Unchanged
                       ELSE Changed(self.items[k].error)]
       ELSE [list |-> [self EXCEPT
                         !.items = Append(@, CppCheckerInfo(env, error))],
             ret |-> Added]

\* add putting the outcome it changes at the end of the list
add_move_to_end(self, env, error) ==
  LET k == FindFirst([n \in 1..Len(self.items) |-> self.items[n].env = env])
  IN IF k # 0
       THEN [list |-> IF self.items[k].error = error
                        THEN self
                        ELSE [self EXCEPT
                                !.items = SubSeq(@, 1, k - 1)
                                            \o SubSeq(@, k + 1, Len(@))
                                            \o <<CppCheckerInfo(env, error)>>],
             ret |-> IF self.items[k].error = error
                       THEN Unchanged
                       ELSE Changed(self.items[k].error)]
       ELSE [list |-> [self EXCEPT
                         !.items = Append(@, CppCheckerInfo(env, error))],
             ret |-> Added]

\* CppCheckerInfoList::add: the list after the call and the value returned
add(self, env, error) ==
  LET k == FindFirst([n \in 1..Len(self.items) |-> self.items[n].env = env])
  IN IF k # 0
       THEN [list |-> [self EXCEPT !.items[k].error = error],
             ret |-> IF self.items[k].error = error
                       THEN Unchanged
                       ELSE Changed(self.items[k].error)]
       ELSE [list |-> [self EXCEPT
                         !.items = Append(@, CppCheckerInfo(env, error))],
             ret |-> Added]

(***************************************************************************)
(* Wrapper functions (CppFfiMethod) and the checker pass that records      *)
(* their outcomes; both are driven by code outside database.rs.            *)
(***************************************************************************)
FfiNames == {"A_X_get", "A_delete"}
CppFfiMethod(name) == [name |-> name, checks |-> [items |-> << >>]]

RECURSIVE SumSeq(_)
SumSeq(s) == IF s = << >> THEN 0 ELSE Head(s) + SumSeq(Tail(s))

\* checker outcomes of the whole Database
NumChecks(its) ==
  SumSeq([i \in 1..Len(its) |->
            SumSeq([j \in 1..Len(its[i].cpp_ffi_methods) |->
                      Len(its[i].cpp_ffi_methods[j].checks.items)])])

AddFfiMethod(i, name) ==
  /\ \A k \in 1..Len(items) : \A j \in 1..Len(items[k].cpp_ffi_methods) :
       items[k].cpp_ffi_methods[j].name # name
  /\ items' = [items EXCEPT ![i].cpp_ffi_methods = Append(@, CppFfiMethod(name))]
  /\ last' = [op |-> "add_ffi_method", item |-> i, name |-> name]
  /\ UNCHANGED <<crate_name, environments, log>>

\* a registry that is never written
RegisterEnv_never(envs, env) == envs

\* the Database's registry of the environments it was validated against
RegisterEnv(envs, env) ==
  IF \E k \in 1..Len(envs) : envs[k] = env THEN envs ELSE Append(envs, env)

\* one validation outcome of wrapper j of item i in environment env
Check(i, j, env, error) ==
  LET r == add(items[i].cpp_ffi_methods[j].checks, env, error)
  IN /\ items' = [items EXCEPT ![i].cpp_ffi_methods[j].checks = r.list]
     /\ environments' = RegisterEnv(environments, env)
     /\ last' = [op |-> "add", item |-> i, ffi |-> j, env |-> env,
                 error |-> error, ret |-> r.ret]
     /\ UNCHANGED <<crate_name, log>>

\* the same in the full specification, which bounds the outcomes it holds
CheckWrapper(i, j, env, error) ==
  /\ add(items[i].cpp_ffi_methods[j].checks, env, error).ret = Added
       => NumChecks(items) < MaxChecks
  /\ Check(i, j, env, error)

(***************************************************************************)
(* Text of the report                                                      *)
(***************************************************************************)
to_cpp_pseudo_code(type) == type.name

\* Display for CppItemData
Display(data) ==
  CASE data.variant = "Type" ->
         IF data.kind.tag = "Enum"
           THEN "enum " \o data.name
           ELSE "class " \o to_cpp_pseudo_code(data.kind.type_base)
    [] data.variant = "Method" -> data.signature
    [] data.variant = "EnumValue" ->
         "enum " \o data.enum_name \o " { " \o data.name \o " = "
           \o ToString(data.value) \o ", ... }"
    [] data.variant = "ClassField" ->
         to_cpp_pseudo_code(data.class_type) \o "::" \o data.name
    [] data.variant = "ClassBase" ->
         LET virtual_text == IF data.is_virtual THEN "virtual " ELSE ""
             visibility_text ==
               CASE data.visibility = "Public" -> "public"
                 [] data.visibility = "Protected" -> "protected"
                 [] data.visibility = "Private" -> "private"
             index_text ==
               IF data.base_index > 0
                 THEN " (index: " \o ToString(data.base_index)
                 ELSE ""
         IN "class " \o to_cpp_pseudo_code(data.derived_class_type) \o " : "
              \o virtual_text \o visibility_text \o " "
              \o to_cpp_pseudo_code(data.base_class_type) \o index_text

\* {:?} of Option<String>
DebugOptString(o) ==
  IF o = None THEN "None" ELSE "Some(\"" \o o[1] \o "\")"
\* {:?} of Option<CppOriginLocation>
DebugOptLocation(o) ==
  IF o = None
    THEN "None"
    ELSE "Some(CppOriginLocation { include_file_path: \""
           \o o[1].include_file_path \o "\", line: " \o ToString(o[1].line)
           \o ", column: " \o ToString(o[1].column) \o " })"
\* {:?} of DatabaseItemSource
DebugSource(source) ==
  IF source.tag = "CppParser"
    THEN "CppParser { include_file: " \o DebugOptString(source.include_file)
           \o ", origin_location: "
           \o DebugOptLocation(source.origin_location) \o " }"
    ELSE source.tag

\* CppCheckerEnv::short_text; the Target fields print as their variant names
short_text(self) ==
  (IF self.cpp_library_version = None
     THEN "None" ELSE self.cpp_library_version[1])
    \o "/" \o self.target.arch \o "-" \o self.target.os
    \o "-" \o self.target.family \o "-" \o self.target.env

\* CppCheckerInfo::error_to_log
error_to_log(error) ==
  IF error = None
    THEN "<span class='ok'>OK</span>"
    ELSE "<span class='ok'>Error</span> (" \o error[1] \o ")"

\* escape_html, on the texts of this model, none of which holds & < > " or '
escape_html(text) == text

RECURSIVE Join(_)
Join(texts) == IF texts = << >> THEN "" ELSE Head(texts) \o Join(Tail(texts))

RECURSIVE Flatten(_)
Flatten(seqs) == IF seqs = << >> THEN << >> ELSE Head(seqs) \o Flatten(Tail(seqs))

(***************************************************************************)
(* Database::print_as_html                                                 *)
(***************************************************************************)
Row(class, cells) == [class |-> class, cells |-> cells]

FfiRow(ffi_method) ==
  LET item_texts ==
        [k \in 1..Len(ffi_method.checks.items) |->
           "<li>" \o short_text(ffi_method.checks.items[k].env) \o ": "
             \o error_to_log(ffi_method.checks.items[k].error) \o "</li>"]
      env_text == "<ul>" \o Join(item_texts) \o "</ul>"
  IN Row("ffi_method", <<escape_html(ffi_method.name), env_text>>)

\* the rows of an item with the rows of its wrapper functions put first
ItemRows_ffi_first(item) ==
  [j \in 1..Len(item.cpp_ffi_methods) |-> FfiRow(item.cpp_ffi_methods[j])]
    \o <<Row("database_item",
            <<escape_html(Display(item.cpp_data)), DebugSource(item.source)>>)>>

ItemRows(item) ==
  <<Row("database_item",
        <<escape_html(Display(item.cpp_data)), DebugSource(item.source)>>)>>
    \o [j \in 1..Len(item.cpp_ffi_methods) |-> FfiRow(item.cpp_ffi_methods[j])]

\* every write of a report, in order: the sink's creation with the title,
\* the header row, then the rows of the items
Writes(name, its) ==
  <<Row("title", <<"Database for crate \"" \o name \o "\"">>),
    Row("header", <<"Item", "Environments">>)>>
    \o Flatten([i \in 1..Len(its) |-> ItemRows(its[i])])

\* the number of writes of a report: Len(Writes(name, its))
NumWrites(its) ==
  2 + SumSeq([i \in 1..Len(its) |-> 1 + Len(its[i].cpp_ffi_methods)])

Ok == [tag |-> "Ok"]
Err == [tag |-> "Err", kind |-> "io"]

\* print_as_html without the `?` of its writes: a failed write is skipped,
\* the later ones are made and the call returns Ok
print_as_html_unchecked(its, failAt) ==
  IF failAt <= NumWrites(its)
    THEN [written |-> NumWrites(its) - 1, ret |-> Ok]
    ELSE [written |-> NumWrites(its), ret |-> Ok]

\* how many writes reach the sink and what the call returns when write
\* number failAt fails (none fails when failAt exceeds the number of writes)
print_as_html(its, failAt) ==
  IF failAt <= NumWrites(its)
    THEN [written |-> failAt - 1, ret |-> Err]
    ELSE [written |-> NumWrites(its), ret |-> Ok]

\* print_as_html emptying the ledgers it has printed
PrintAsHtml_drain(failAt) ==
  LET r == print_as_html(items, failAt)
  IN /\ last' = [op |-> "print_as_html", failAt |-> failAt,
                 written |-> r.written, ret |-> r.ret]
     /\ items' = [i \in 1..Len(items) |->
                    [items[i] EXCEPT !.cpp_ffi_methods =
                       [j \in 1..Len(@) |-> [@[j] EXCEPT !.checks.items = << >>]]]]
     /\ UNCHANGED <<crate_name, environments, log>>

PrintAsHtml(failAt) ==
  LET r == print_as_html(items, failAt)
  IN /\ last' = [op |-> "print_as_html", failAt |-> failAt,
                 written |-> r.written, ret |-> r.ret]
     /\ UNCHANGED <<crate_name, items, environments, log>>

\* what the last print_as_html call left in the sink
Sink == SubSeq(Writes(crate_name, items), 1, last.written)

Init ==
  /\ crate_name = empty(CrateName).crate_name
  /\ items = empty(CrateName).items
  /\ environments = empty(CrateName).environments
  /\ last = [op |-> "empty"]
  /\ log = << >>

\* the whole Database: ingestion, wrappers, checker outcomes
Next ==
  \/ \E in \in FewInputs : AddCppData(in[1], in[2])
  \/ \E i \in 1..Len(items), name \in FfiNames : AddFfiMethod(i, name)
  \/ \E i \in 1..Len(items) : \E j \in 1..Len(items[i].cpp_ffi_methods) :
       \E env \in FewEnvs, error \in FewErrors :
         CheckWrapper(i, j, env, error)
  \/ \E failAt \in 1..(NumWrites(items) + 1) : PrintAsHtml(failAt)

Spec == Init /\ [][Next]_vars

\* ingestion alone, over every source and fact
NextIngest ==
  \/ \E source \in Sources, data \in Facts : AddCppData(source, data)
  \/ \E failAt \in 1..(NumWrites(items) + 1) : PrintAsHtml(failAt)

SpecIngest == Init /\ [][NextIngest]_vars

\* one wrapper function of one item and the outcomes recorded in its ledger
NextLedger ==
  \/ AddCppData(Destructor, EnumValueFact("A", "X", 1, 0))
  \/ \E i \in 1..Len(items) : AddFfiMethod(i, "A_X_get")
  \/ \E i \in 1..Len(items) : \E j \in 1..Len(items[i].cpp_ffi_methods) :
       \E env \in Envs, error \in Errors : Check(i, j, env, error)

SpecLedger == Init /\ [][NextLedger]_vars

\* the report of a Database of two enum values, their wrapper functions and
\* the outcomes recorded for them
ReportInputs ==
  { <<CppParser(Some("a.h"), Some(OriginLocation(10, 1))),
      EnumValueFact("A", "X", 1, 0)>>,
    <<Destructor, EnumValueFact("A", "Y", 2, 0)>> }

NextReport ==
  \/ \E in \in ReportInputs : AddCppData(in[1], in[2])
  \/ \E i \in 1..Len(items), name \in FfiNames : AddFfiMethod(i, name)
  \/ \E i \in 1..Len(items) : \E j \in 1..Len(items[i].cpp_ffi_methods) :
       \E env \in FewEnvs, error \in FewErrors :
         CheckWrapper(i, j, env, error)
  \/ \E failAt \in 1..(NumWrites(items) + 1) : PrintAsHtml(failAt)

SpecReport == Init /\ [][NextReport]_vars

\* recorded runs of ingestion from the empty Database
NextOrder ==
  \E source \in OrderSources, data \in OrderFacts :
    RecordedAddCppData(source, data)

SpecOrder == Init /\ [][NextOrder]_vars

(***************************************************************************)
(* Properties                                                              *)
(***************************************************************************)
\* positions of the entries of its structurally equal to data
SameAs(its, data) == {i \in 1..Len(its) : is_same(its[i].cpp_data, data)}

\* C1: no two distinct entries of items have cpp_data that are the same
\* declaration under is_same.
C1_NoDuplicateFacts ==
  \A i, j \in 1..Len(items) :
    i # j => ~is_same(items[i].cpp_data, items[j].cpp_data)

\* a call was deduplicated against an entry holding other metadata, beside
\* two more entries
C1_Witness ==
  /\ Len(items) = 3
  /\ last.op = "add_cpp_data" /\ last.ret = FALSE
  /\ \E i \in SameAs(items, last.data) : items[i].cpp_data # last.data

\* C2: when add_cpp_data(o, f) is called twice in a row, the second call
\* returns false and leaves the Database as the first call left it, with
\* exactly one entry structurally equal to f.
C2_IdempotentIngestion ==
  [][ LET n == Len(log')
      IN (n >= 2 /\ log'[n].source = log'[n - 1].source
                 /\ log'[n].data = log'[n - 1].data)
           => /\ log'[n].ret = FALSE
              /\ items' = items
              /\ crate_name' = crate_name
              /\ environments' = environments
              /\ Cardinality(SameAs(items', log'[n].data)) = 1 ]_vars

\* the same call was made twice in a row, the first one creating the entry
\* after another entry
C2_Witness ==
  /\ Len(log) = 3
  /\ log[2].ret = TRUE
  /\ log[3].source = log[2].source /\ log[3].data = log[2].data
  /\ Len(items) = 2

\* C3: when a call with a synthesized origin creates an entry and the next
\* call brings a structurally equal fact with a CppParser origin, there is
\* one such entry and its source is that CppParser origin; when the two
\* calls come in the reverse order, there is one such entry and its source
\* is still the CppParser origin of the first call.
C3_ProvenancePriority ==
  LET n == Len(log)
  IN (n >= 2 /\ log[n - 1].ret = TRUE
             /\ is_same(log[n - 1].data, log[n].data))
       => LET a == log[n - 1]
              b == log[n]
              same == SameAs(items, b.data)
          IN /\ (~is_parser(a.source) /\ is_parser(b.source))
                  => /\ Cardinality(same) = 1
                     /\ \A i \in same : items[i].source = b.source
             /\ (is_parser(a.source) /\ ~is_parser(b.source))
                  => /\ Cardinality(same) = 1
                     /\ \A i \in same : items[i].source = a.source

\* a synthesized entry was upgraded by a parser call carrying a location and
\* other metadata
C3_Witness ==
  LET n == Len(log)
  IN /\ n >= 2
     /\ log[n - 1].ret = TRUE /\ ~is_parser(log[n - 1].source)
     /\ is_parser(log[n].source) /\ log[n].source.origin_location # None
     /\ is_same(log[n - 1].data, log[n].data)
     /\ log[n - 1].data # log[n].data
     /\ \E i \in 1..Len(items) : items[i].source = log[n].source

\* add_cpp_data applied to each call of calls in turn, from no items
RECURSIVE Replay(_)
Replay(calls) ==
  IF calls = << >>
    THEN << >>
    ELSE LET n == Len(calls)
         IN add_cpp_data(Replay(SubSeq(calls, 1, n - 1)),
                         calls[n].source, calls[n].data).items

\* the permutations of 1..n, for every number n of recorded calls
PermsOf ==
  [n \in 0..MaxCalls |->
     {p \in [1..n -> 1..n] : \A i, j \in 1..n : i # j => p[i] # p[j]}]
Perms(n) == PermsOf[n]
Permuted(calls, p) == [k \in 1..Len(calls) |-> calls[p[k]]]

\* the (stored fact, provenance) pairs of a list of entries
PairSet(its) == {<<its[i].cpp_data, its[i].source>> : i \in 1..Len(its)}

\* every entry of a has an entry of b holding the same declaration, with a
\* parser provenance in b iff it has one in a
Covers(a, b) ==
  \A i \in 1..Len(a) : \E j \in 1..Len(b) :
    /\ is_same(a[i].cpp_data, b[j].cpp_data)
    /\ is_parser(a[i].source) = is_parser(b[j].source)

\* C4 as stated: ingesting the same (origin, fact) pairs in any two orders
\* yields the same set of (stored fact, final provenance) pairs.
C4_OrderIndependence ==
  \A p \in Perms(Len(log)) :
    PairSet(Replay(Permuted(log, p))) = PairSet(items)

\* C4 as amended: ingesting the same (origin, fact) pairs in any two orders
\* yields as many entries, the entries of one order matching those of the
\* other up to is_same on the stored fact and up to is_parser on the final
\* provenance.
C4_OrderIndependenceUpToSame ==
  \A p \in Perms(Len(log)) :
    LET other == Replay(Permuted(log, p))
    IN /\ Len(other) = Len(items)
       /\ Covers(other, items)
       /\ Covers(items, other)

\* three calls left two entries, and another order of the same calls leaves
\* other (stored fact, provenance) pairs
C4_Witness ==
  /\ Len(log) = 3
  /\ Len(items) = 2
  /\ \E p \in Perms(3) : PairSet(Replay(Permuted(log, p))) # PairSet(items)

\* the ledger of wrapper function j of entry i
Ledger(its, i, j) == its[i].cpp_ffi_methods[j].checks.items
\* the (entry, wrapper function) positions of its
Wrappers(its) ==
  UNION { {<<i, j>> : j \in 1..Len(its[i].cpp_ffi_methods)} :
            i \in 1..Len(its) }

\* C5: no ledger holds two items with equal env.
C5_LedgerUniqueEnv ==
  \A w \in Wrappers(items) :
    LET led == Ledger(items, w[1], w[2])
    IN \A k, n \in 1..Len(led) : k # n => led[k].env # led[n].env

\* a ledger holds every environment, and the last call found its own there
C5_Witness ==
  /\ last.op = "add" /\ last.ret # Added
  /\ Len(Ledger(items, last.item, last.ffi)) = Cardinality(Envs)

\* C6: add returns Added iff the ledger held no item with that env,
\* Unchanged iff it held one storing the supplied error, Changed{old} iff it
\* held one storing another error, old being the error it stored; after the
\* call the ledger's item for env stores the supplied error.
C6_AddResult ==
  [][ last'.op = "add" =>
        LET before == Ledger(items, last'.item, last'.ffi)
            after == Ledger(items', last'.item, last'.ffi)
            env == last'.env
            error == last'.error
            ret == last'.ret
            had == {k \in 1..Len(before) : before[k].env = env}
        IN /\ ret = Added <=> had = {}
           /\ ret = Unchanged <=> \E k \in had : before[k].error = error
           /\ ret.tag = "Changed" <=> \E k \in had : before[k].error # error
           /\ ret.tag = "Changed" => \A k \in had : ret.old = before[k].error
           /\ ret \in {Added, Unchanged} \/ ret.tag = "Changed"
           /\ \E k \in 1..Len(after) : after[k].env = env
           /\ \A k \in 1..Len(after) :
                after[k].env = env => after[k].error = error ]_vars

\* an error text stored beside another environment's outcome was replaced
\* by another error text
C6_Witness ==
  /\ last.op = "add"
  /\ last.ret = Changed(Some("link error"))
  /\ last.error = Some("compile error")
  /\ Len(Ledger(items, last.item, last.ffi)) >= 2

\* C7: across add_cpp_data, CppCheckerInfoList::add and print_as_html
\* calls (and the attaching of wrapper functions), every stored fact of
\* items stays in items, every env of a ledger stays in that ledger, and the
\* lengths of items and of every ledger never decrease.
C7_NonDeletion ==
  [][ /\ Len(items') >= Len(items)
      /\ \A i \in 1..Len(items) : \E n \in 1..Len(items') :
           items'[n].cpp_data = items[i].cpp_data
      /\ \A w \in Wrappers(items) :
           /\ w \in Wrappers(items')
           /\ LET before == Ledger(items, w[1], w[2])
                  after == Ledger(items', w[1], w[2])
              IN /\ Len(after) >= Len(before)
                 /\ \A k \in 1..Len(before) : \E n \in 1..Len(after) :
                      after[n].env = before[k].env ]_vars

\* an error was cleared in a ledger of two outcomes, in a Database of two
\* entries
C7_Witness ==
  /\ Len(items) = 2
  /\ last.op = "add" /\ last.error = None /\ last.ret.tag = "Changed"
  /\ Len(Ledger(items, last.item, last.ffi)) = 2

C9_AddCppDataResult ==
  [][ last'.op = "add_cpp_data" =>
        /\ last'.ret = TRUE <=> SameAs(items, last'.data) = {}
        /\ last'.ret = TRUE =>
             items' = Append(items, [cpp_data |-> last'.data,
                                     source |-> last'.source,
                                     cpp_ffi_methods |-> << >>])
        /\ last'.ret = FALSE => Len(items') = Len(items) ]_vars

\* a third entry was appended by a parser call
C9_Witness ==
  /\ last.op = "add_cpp_data" /\ last.ret = TRUE
  /\ Len(items) = 3
  /\ items[3].cpp_data = last.data
  /\ is_parser(items[3].source)

\* C10: when add_cpp_data finds a structurally equal entry, no entry's
\* cpp_data or cpp_ffi_methods changes, even when the supplied fact differs
\* from the stored one, and no source changes but the found entry's.
C10_MatchKeepsFact ==
  [][ (last'.op = "add_cpp_data" /\ last'.ret = FALSE) =>
        /\ Len(items') = Len(items)
        /\ \A i \in 1..Len(items) :
             /\ items'[i].cpp_data = items[i].cpp_data
             /\ items'[i].cpp_ffi_methods = items[i].cpp_ffi_methods
             /\ items'[i].source # items[i].source
                  => /\ i \in SameAs(items, last'.data)
                     /\ \A n \in SameAs(items, last'.data) : i <= n ]_vars

\* a parser call upgraded an entry that holds other metadata than the call
\* brought and a wrapper function with a recorded outcome
C10_Witness ==
  /\ last.op = "add_cpp_data" /\ last.ret = FALSE
  /\ \E i \in SameAs(items, last.data) :
       /\ items[i].cpp_data # last.data
       /\ items[i].source = last.source
       /\ Len(items[i].cpp_ffi_methods) >= 1
       /\ Len(Ledger(items, i, 1)) >= 1

\* the stored facts of a list of entries, in order
StoredFacts(its) == [i \in 1..Len(its) |-> its[i].cpp_data]
\* the calls of calls that bring a fact no earlier call brought
FirstCalls(calls) ==
  {k \in 1..Len(calls) :
     \A j \in 1..(k - 1) : ~is_same(calls[j].data, calls[k].data)}
\* the first call of calls that brings the declaration of fact
FirstCallOf(calls, fact) ==
  CHOOSE k \in FirstCalls(calls) : is_same(calls[k].data, fact)

\* C11: the stored facts of items before an add_cpp_data call are a prefix
\* of the stored facts after it, also when the call upgrades a provenance,
\* and the entries stand in the order in which the declarations were first
\* ingested: one entry per first-seen declaration, an entry before another
\* iff its declaration was first ingested before the other's.
C11_AppendOnlyFirstSeenOrder ==
  [][ /\ Len(items') >= Len(items)
      /\ SubSeq(StoredFacts(items'), 1, Len(items)) = StoredFacts(items)
      /\ Len(items') = Cardinality(FirstCalls(log'))
      /\ \A a \in 1..Len(items') :
           \E k \in FirstCalls(log') : is_same(log'[k].data, items'[a].cpp_data)
      /\ \A a, b \in 1..Len(items') :
           a < b <=> FirstCallOf(log', items'[a].cpp_data)
                       < FirstCallOf(log', items'[b].cpp_data) ]_vars

\* the first of two entries was upgraded by the third call, which brought
\* other metadata than the entry holds
C11_Witness ==
  /\ Len(log) = 3 /\ Len(items) = 2
  /\ log[1].ret = TRUE /\ ~is_parser(log[1].source)
  /\ log[2].ret = TRUE
  /\ log[3].ret = FALSE /\ is_parser(log[3].source)
  /\ is_same(log[3].data, items[1].cpp_data)
  /\ log[3].data # items[1].cpp_data
  /\ items[1].source = log[3].source

\* C12: a print_as_html call, whether it returns Ok or Err, leaves
\* crate_name, items and environments as they were, so every later
\* add_cpp_data, CppCheckerInfoList::add and print_as_html call returns and
\* does what it would have without the print.
C12_PrintIsPureRead ==
  [][ last'.op = "print_as_html" =>
        /\ crate_name' = crate_name
        /\ items' = items
        /\ environments' = environments
        /\ \A in \in ReportInputs :
             add_cpp_data(items', in[1], in[2]) = add_cpp_data(items, in[1], in[2])
        /\ \A w \in Wrappers(items) : \A env \in FewEnvs, error \in FewErrors :
             /\ w \in Wrappers(items')
             /\ add(items'[w[1]].cpp_ffi_methods[w[2]].checks, env, error)
                  = add(items[w[1]].cpp_ffi_methods[w[2]].checks, env, error)
        /\ \A failAt \in 1..(NumWrites(items) + 1) :
             print_as_html(items', failAt) = print_as_html(items, failAt) ]_vars

\* a print failed midway over a Database holding two entries, a wrapper
\* function and a recorded outcome
C12_Witness ==
  /\ last.op = "print_as_html" /\ last.ret = Err /\ last.written >= 3
  /\ Len(items) = 2
  /\ \E w \in Wrappers(items) : Len(Ledger(items, w[1], w[2])) >= 1
  /\ Len(environments) >= 1

\* the rows of the last report: its writes after the creation of the sink
Rows == SubSeq(Sink, 2, Len(Sink))
\* where the row of entry i stands among the rows of a report of its
EntryRowAt(its, i) ==
  1 + i + SumSeq([k \in 1..(i - 1) |-> Len(its[k].cpp_ffi_methods)])
\* the line of one ledger item
OutcomeLine(info) ==
  "<li>" \o short_text(info.env) \o ": "
    \o (IF info.error = None
          THEN "<span class='ok'>OK</span>"
          ELSE "<span class='ok'>Error</span> (" \o info.error[1] \o ")")
    \o "</li>"

\* C13: after a print_as_html that returned Ok the rows are the header row,
\* then for each entry, in items order, its row (rendered fact, provenance)
\* followed at once by one sub-row per wrapper function in list order, each
\* holding one line per ledger item in ledger order with the environment's
\* short text and OK or the error text, and nothing else; the enum values
\* A::X = 1 and A::Y = 2 render as 'enum A { X = 1, ... }' and
\* 'enum A { Y = 2, ... }'.
C13_ReportRows ==
  (last.op = "print_as_html" /\ last.ret = Ok) =>
    /\ Len(Rows) = 1 + Len(items) + Cardinality(Wrappers(items))
    /\ Rows[1] = [class |-> "header", cells |-> <<"Item", "Environments">>]
    /\ \A i \in 1..Len(items) :
         LET at == EntryRowAt(items, i)
             fact == items[i].cpp_data
         IN /\ Rows[at].class = "database_item"
            /\ Rows[at].cells
                 = <<Display(fact), DebugSource(items[i].source)>>
            /\ is_same(fact, EnumValueFact("A", "X", 1, 0))
                 => Rows[at].cells[1] = "enum A { X = 1, ... }"
            /\ is_same(fact, EnumValueFact("A", "Y", 2, 0))
                 => Rows[at].cells[1] = "enum A { Y = 2, ... }"
            /\ \A j \in 1..Len(items[i].cpp_ffi_methods) :
                 LET led == Ledger(items, i, j)
                 IN /\ Rows[at + j].class = "ffi_method"
                    /\ Rows[at + j].cells
                         = <<items[i].cpp_ffi_methods[j].name,
                             "<ul>"
                               \o Join([k \in 1..Len(led) |-> OutcomeLine(led[k])])
                               \o "</ul>">>

\* A::X = 1 then A::Y = 2 were ingested and printed, the first with a wrapper
\* function validated in one environment and failing in another
C13_Witness ==
  /\ last.op = "print_as_html" /\ last.ret = Ok
  /\ Len(items) = 2 /\ Len(items[1].cpp_ffi_methods) = 1
  /\ Len(Rows) >= 4
  /\ Rows[2].cells[1] = "enum A { X = 1, ... }"
  /\ Rows[3].cells[2]
       = "<ul><li>None/X86_64-Linux-Unix-Gnu: <span class='ok'>OK</span></li>"
           \o "<li>5.11/X86_64-Linux-Unix-Gnu: "
           \o "<span class='ok'>Error</span> (link error)</li></ul>"
  /\ Rows[4].cells[1] = "enum A { Y = 2, ... }"

\* C14: when the creation of the sink or the write of a row fails,
\* print_as_html returns the error at that first failing write: the writes
\* before it stay in the sink, none is made after it, and the Database is
\* unchanged; it returns Ok only if every write succeeded.
C14_PrintFailure ==
  [][ last'.op = "print_as_html" =>
        LET n == NumWrites(items)
            failed == last'.failAt <= n
        IN /\ last'.ret = (IF failed THEN Err ELSE Ok)
           /\ last'.ret = Ok => last'.written = n
           /\ last'.ret = Err =>
                /\ last'.ret.kind = "io"
                /\ last'.written = last'.failAt - 1
                /\ last'.written < n
           /\ <<crate_name', items', environments'>>
                = <<crate_name, items, environments>> ]_vars

\* the write of the second entry's row failed after the rows of the first
\* entry and of its wrapper function were written
C14_Witness ==
  /\ last.op = "print_as_html" /\ last.ret = Err
  /\ Len(items) = 2 /\ Len(items[1].cpp_ffi_methods) = 1
  /\ last.failAt = 5 /\ last.written = 4
  /\ Len(Sink) = 4 /\ Sink[4].class = "ffi_method"

\* C15: add with an env the ledger holds overwrites that item in place: the
\* ledger keeps its length, every item its position and env, every other
\* item its error; when add returns Unchanged the ledger is as before; when
\* it returns Added the items before are an unchanged prefix and the new
\* item is last.
C15_AddInPlace ==
  [][ last'.op = "add" =>
        LET before == Ledger(items, last'.item, last'.ffi)
            after == Ledger(items', last'.item, last'.ffi)
            env == last'.env
        IN /\ (\E k \in 1..Len(before) : before[k].env = env) =>
                /\ Len(after) = Len(before)
                /\ \A k \in 1..Len(before) :
                     /\ after[k].env = before[k].env
                     /\ before[k].env # env => after[k].error = before[k].error
           /\ last'.ret = Unchanged => after = before
           /\ last'.ret = Added =>
                /\ Len(after) = Len(before) + 1
                /\ SubSeq(after, 1, Len(before)) = before
                /\ after[Len(after)] = [env |-> env, error |-> last'.error] ]_vars

\* the error of the first of three outcomes was replaced
C15_Witness ==
  /\ last.op = "add" /\ last.ret.tag = "Changed"
  /\ Len(Ledger(items, last.item, last.ffi)) = 3
  /\ Ledger(items, last.item, last.ffi)[1]
       = [env |-> last.env, error |-> last.error]
  /\ last.error # None /\ last.ret.old # None

\* the calls of calls, taken from the empty Database, that change the source
\* of entry i
SourceChanges(calls, i) ==
  {k \in 1..Len(calls) :
     LET before == Replay(SubSeq(calls, 1, k - 1))
         after == Replay(SubSeq(calls, 1, k))
     IN i <= Len(before) /\ after[i].source # before[i].source}

\* C16: an add_cpp_data call changes an entry's source only from a
\* non-parser value to the CppParser value it was given, so a CppParser
\* source stays as it is (include_file and origin_location too) under later
\* calls, a synthesized origin never replaces a synthesized one, and over
\* the calls made so far the source of an entry has changed at most once.
C16_SourceChangesOnce ==
  [][ /\ \A i \in 1..Len(items) :
           /\ items'[i].source # items[i].source
                => /\ ~is_parser(items[i].source)
                   /\ is_parser(items'[i].source)
                   /\ items'[i].source = log'[Len(log')].source
           /\ is_parser(items[i].source)
                => items'[i].source = items[i].source
           /\ (~is_parser(items[i].source) /\ ~is_parser(log'[Len(log')].source))
                => items'[i].source = items[i].source
      /\ \A i \in 1..Len(items') :
           Cardinality(SourceChanges(log', i)) <= 1 ]_vars

\* a synthesized entry was upgraded by a parser call without a location,
\* and a later parser call with a location left that source as it was
C16_Witness ==
  /\ Len(log) = 3 /\ Len(items) = 1
  /\ ~is_parser(log[1].source)
  /\ is_parser(log[2].source) /\ is_parser(log[3].source)
  /\ log[3].source # log[2].source
  /\ log[3].source.origin_location # None
  /\ items[1].source = log[2].source
  /\ SourceChanges(log, 1) = {2}

\* add_cpp_data applied to each call of calls in turn, from the items its:
\* the items left and the values returned
RECURSIVE Rerun(_, _)
Rerun(its, calls) ==
  IF calls = << >>
    THEN [items |-> its, rets |-> << >>]
    ELSE LET n == Len(calls)
             r == Rerun(its, SubSeq(calls, 1, n - 1))
             c == add_cpp_data(r.items, calls[n].source, calls[n].data)
         IN [items |-> c.items, rets |-> Append(r.rets, c.ret)]

\* C17: after the calls of log were made on the empty Database, making all
\* of them again, in the same or any other order, returns false every time
\* and leaves items as the first pass left them.
C17_RerunConverges ==
  \A p \in Perms(Len(log)) :
    LET r == Rerun(items, Permuted(log, p))
    IN /\ r.items = items
       /\ \A k \in 1..Len(log) : r.rets[k] = FALSE

\* a first pass of three calls left two entries, one of them upgraded from
\* a synthesized origin that the second pass brings again
C17_Witness ==
  /\ Len(log) = 3 /\ Len(items) = 2
  /\ \E k \in 1..3 : \E i \in 1..2 :
       /\ ~is_parser(log[k].source)
       /\ is_same(log[k].data, items[i].cpp_data)
       /\ is_parser(items[i].source)
       /\ log[k].data # items[i].cpp_data
  /\ Rerun(items, Permuted(log, [k \in 1..3 |-> 4 - k])).items = items

\* C18: after any calls of add_cpp_data on the empty Database, the source of
\* an entry is a CppParser value iff one of the calls brought a CppParser
\* origin with a fact structurally equal to the entry's; which calls were
\* made decides it, not their order.
C18_ParserIffParserCall ==
  \A i \in 1..Len(items) :
    is_parser(items[i].source)
      <=> \E k \in 1..Len(log) :
            /\ is_parser(log[k].source)
            /\ is_same(log[k].data, items[i].cpp_data)

\* of two entries one was created by a parser call and never upgraded, the
\* other was created and found again by synthesized calls only
C18_Witness ==
  /\ Len(log) = 3 /\ Len(items) = 2
  /\ \E i, j \in 1..2 :
       /\ is_parser(items[i].source) /\ ~is_parser(items[j].source)
       /\ Cardinality({k \in 1..3 : is_same(log[k].data, items[j].cpp_data)}) = 2
  /\ is_parser(log[1].source)

\* the sets of calls of calls that bring the same declaration
Classes(calls) ==
  { {j \in 1..Len(calls) : is_same(calls[j].data, calls[k].data)} :
      k \in 1..Len(calls) }

\* C19: after any calls of add_cpp_data on the empty Database, every fact
\* passed to a call has exactly one entry structurally equal to it, and
\* items has as many entries as there are is_same classes among the facts
\* passed so far.
C19_NoFactLost ==
  /\ \A k \in 1..Len(log) :
       Cardinality(SameAs(items, log[k].data)) = 1
  /\ Len(items) = Cardinality(Classes(log))

\* three calls brought two declarations, one of them twice with different
\* metadata
C19_Witness ==
  /\ Len(log) = 3 /\ Len(items) = 2
  /\ Cardinality(Classes(log)) = 2
  /\ Cardinality({log[k].data : k \in 1..3}) = 3

\* C20: add_cpp_data changes neither crate_name nor environments nor the
\* cpp_ffi_methods (so no ledger) of any entry; CppCheckerInfoList::add on
\* the ledger of one wrapper function changes no entry's fact or source,
\* not the list of entries nor any list of wrapper functions, and not the
\* ledger of any other wrapper function.
C20_IngestionAndChecksIndependent ==
  [][ /\ last'.op = "add_cpp_data" =>
           /\ crate_name' = crate_name
           /\ environments' = environments
           /\ Len(items') >= Len(items)
           /\ \A i \in 1..Len(items) :
                items'[i].cpp_ffi_methods = items[i].cpp_ffi_methods
      /\ last'.op = "add" =>
           /\ Len(items') = Len(items)
           /\ \A i \in 1..Len(items) :
                /\ items'[i].cpp_data = items[i].cpp_data
                /\ items'[i].source = items[i].source
                /\ Len(items'[i].cpp_ffi_methods) = Len(items[i].cpp_ffi_methods)
           /\ \A w \in Wrappers(items) :
                /\ items'[w[1]].cpp_ffi_methods[w[2]].name
                     = items[w[1]].cpp_ffi_methods[w[2]].name
                /\ w # <<last'.item, last'.ffi>>
                     => Ledger(items', w[1], w[2]) = Ledger(items, w[1], w[2]) ]_vars

\* an outcome was recorded for the wrapper function of one entry while the
\* wrapper function of another entry holds an outcome of its own, after a
\* parser call had upgraded an entry
C20_Witness ==
  /\ last.op = "add" /\ last.ret = Added
  /\ Len(items) = 2
  /\ \E i \in 1..2 :
       /\ i # last.item
       /\ Len(items[i].cpp_ffi_methods) = 1
       /\ Len(Ledger(items, i, 1)) = 1
  /\ \E i \in 1..2 : is_parser(items[i].source)

====
